---- MODULE Spec2Model ----
(***************************************************************************)
(* Model of the Minesweeper knowledge base of                              *)
(* src/Project 1/minesweeper/minesweeper.py: the classes Minesweeper       *)
(* (ground truth), Sentence and MinesweeperAI.                             *)
(*                                                                         *)
(* Sentence objects are mutable and are shared between the knowledge list  *)
(* and the frames of check_and_add_sentence, so a call works on a heap of  *)
(* sentences (heap) and a list of references into it (kn).  The for-loops  *)
(* over self.knowledge are index based, as Python's list iterator is: the  *)
(* list is re-read at every step, so removals during the loop skip the     *)
(* element that slides into the freed slot and appended sentences are      *)
(* visited.                                                                *)
(***************************************************************************)
EXTENDS Integers, Sequences, FiniteSets, TLC

\* ---------------------------------------------------------------- bounds
\* Largest number of board cells (height * width) of the boards explored.
MaxCells == 9
\* Largest number of mines hidden in a layout.
MaxMines == 1
\* Largest number of add_knowledge calls in one game.
MaxMoves == 4
\* Largest number of add_knowledge calls in a game in which the caller also
\* asks for moves (SpecQueries), and the largest number of board cells of
\* the boards of those games.
MaxQueryCalls == 2
MaxQueryCells == 6
\* Nesting depth of check_and_add_sentence at which the interpreter gives up
\* with RecursionError (sys.getrecursionlimit() frames in CPython; a smaller
\* number here, which every returning call of the explored boards stays
\* below).
RecursionLimit == 9
\* Number of sentences one add_knowledge call may append to the knowledge
\* list; a call that appends more is followed no further and counts as not
\* having returned (every returning call of the explored boards appends
\* fewer).
MaxAppends == 9
\* Largest number of board cells of the boards on which the caller also
\* calls mark_mine and mark_safe itself (SpecCalls), and the largest number
\* of state-changing calls in such a game.
MaxCallCells == 4
\* Largest number of board cells and of hidden mines of the boards with
\* more mines (SpecDense).
MaxDenseCells == 8
MaxDenseMines == 3
MaxCalls == 2

VARIABLES
    height,      \* Minesweeper.height / MinesweeperAI.height
    width,       \* Minesweeper.width / MinesweeperAI.width
    board,       \* Minesweeper.mines: the hidden layout (set of cells)
    moves_made,  \* MinesweeperAI.moves_made
    mines,       \* MinesweeperAI.mines
    safes,       \* MinesweeperAI.safes
    knowledge,   \* MinesweeperAI.knowledge: sequence of [cells, count]
    status,      \* "ok"; "RecursionError" once a call has raised it;
                 \* "unfinished" once a call has not returned
    calls,       \* number of add_knowledge, mark_mine and mark_safe calls made
    last         \* what the last call was, and what it did and returned

vars == <<height, width, board, moves_made, mines, safes, knowledge,
          status, calls, last>>

\* Python's None, for the optional results of known_mines / known_safes /
\* make_safe_move: an optional value is <<>> or <<v>>.
None == <<>>
Some(v) == <<v>>

\* Cells of a height x width board.
BoardCells(h, w) == (0 .. h - 1) \X (0 .. w - 1)

\* A Sentence object.
Sentence(cells, count) == [cells |-> cells, count |-> count]

\* ------------------------------------------------------------ Minesweeper

\* The 3x3 block around a cell, without the cell (the two range() loops).
Around(cell) ==
    { <<i, j>> \in (cell[1] - 1 .. cell[1] + 1) \X (cell[2] - 1 .. cell[2] + 1) :
        <<i, j>> # cell }

\* The bounds test of nearby_mines (line 74): row within the height,
\* column within the width.
InBounds(n) ==
    /\ 0 <= n[1] /\ n[1] < height
    /\ 0 <= n[2] /\ n[2] < width

\* Minesweeper.nearby_mines: mines among the in-bounds neighbours.
nearby_mines(cell) ==
    Cardinality({ n \in Around(cell) : InBounds(n) /\ n \in board })

\* Minesweeper.is_mine
is_mine(cell) == cell \in board

\* --------------------------------------------------------------- Sentence

\* Sentence.__eq__
SentenceEq(a, b) == a.cells = b.cells /\ a.count = b.count

\* Sentence.known_mines: the cells when all of them are mines, else None
\* (both other branches return None).
known_mines(s) ==
    IF Cardinality(s.cells) = s.count THEN Some(s.cells) ELSE None

\* Sentence.known_safes
known_safes(s) ==
    IF s.count = 0 THEN Some(s.cells) ELSE None

\* Sentence.mark_mine without its `if cell in self.cells`: the count drops
\* whether or not the cell was there.
SentenceMarkMineAlways(s, cell) ==
    Sentence(s.cells \ {cell}, s.count - 1)

\* Sentence.mark_mine
SentenceMarkMine(s, cell) ==
    IF cell \in s.cells
    THEN Sentence(s.cells \ {cell}, s.count - 1)
    ELSE s

\* Sentence.mark_safe
SentenceMarkSafe(s, cell) ==
    IF cell \in s.cells
    THEN Sentence(s.cells \ {cell}, s.count)
    ELSE s

\* ---------------------------------------------------------- MinesweeperAI
\* The state a call of add_knowledge works on:
\*   heap    every Sentence object created so far, by reference number
\*   kn      self.knowledge, as references into heap
\*   mines, safes   self.mines, self.safes
\*   appends number of sentences appended to self.knowledge by this call
\*   err     "ok", or why the call is being abandoned: "RecursionError"
\*           (raised, and propagating through the frames), "unfinished"
\*   settles, adds  record of the check_knowledge and check_and_add_sentence
\*           calls that have returned: what they started from and produced
\*   pairs   record of the steps of the subset loop that derived a sentence:
\*           the stored sentence and the list element it was compared with
\*           (by reference number), and the sentence derived from the two

\* The sentences self.knowledge refers to, in list order, with their
\* reference numbers.
View(st) ==
    [i \in 1 .. Len(st.kn) |->
        [id |-> st.kn[i], cells |-> st.heap[st.kn[i]].cells,
         count |-> st.heap[st.kn[i]].count]]

\* self.knowledge as values, in list order.
Values(st) == [i \in 1 .. Len(st.kn) |-> st.heap[st.kn[i]]]

\* The references self.knowledge holds.
Listed(st) == { st.kn[i] : i \in 1 .. Len(st.kn) }

\* `sentence in self.knowledge`: list membership by Sentence.__eq__.
InKnowledge(st, s) ==
    \E i \in 1 .. Len(st.kn) : SentenceEq(st.heap[st.kn[i]], s)

\* self.knowledge.remove(s): drops the first element equal to s by
\* Sentence.__eq__, which need not be the object the loop is looking at.
ListRemove(st, s) ==
    LET j == CHOOSE j \in 1 .. Len(st.kn) :
                /\ SentenceEq(st.heap[st.kn[j]], s)
                /\ \A k \in 1 .. j - 1 : ~SentenceEq(st.heap[st.kn[k]], s)
    IN  [st EXCEPT !.kn = SubSeq(st.kn, 1, j - 1) \o SubSeq(st.kn, j + 1, Len(st.kn))]

\* MinesweeperAI.mark_mine
mark_mine(st, cell) ==
    LET listed == Listed(st)
    IN  [st EXCEPT
            !.mines = @ \cup {cell},
            !.heap = [i \in DOMAIN st.heap |->
                        IF i \in listed THEN SentenceMarkMine(st.heap[i], cell)
                        ELSE st.heap[i]]]

\* mark_safe taking the cell out of self.mines as it puts it into
\* self.safes.
mark_safe_unmarking(st, cell) ==
    LET listed == Listed(st)
    IN  [st EXCEPT
            !.safes = @ \cup {cell},
            !.mines = @ \ {cell},
            !.heap = [i \in DOMAIN st.heap |->
                        IF i \in listed THEN SentenceMarkSafe(st.heap[i], cell)
                        ELSE st.heap[i]]]

\* MinesweeperAI.mark_safe
mark_safe(st, cell) ==
    LET listed == Listed(st)
    IN  [st EXCEPT
            !.safes = @ \cup {cell},
            !.heap = [i \in DOMAIN st.heap |->
                        IF i \in listed THEN SentenceMarkSafe(st.heap[i], cell)
                        ELSE st.heap[i]]]

\* `for cell in cells: self.mark_mine(cell)`
RECURSIVE MarkMines(_, _)
MarkMines(st, cells) ==
    IF cells = {} THEN st
    ELSE LET c == CHOOSE c \in cells : TRUE
         IN  MarkMines(mark_mine(st, c), cells \ {c})

\* `for cell in cells: self.mark_safe(cell)`
RECURSIVE MarkSafes(_, _)
MarkSafes(st, cells) ==
    IF cells = {} THEN st
    ELSE LET c == CHOOSE c \in cells : TRUE
         IN  MarkSafes(mark_safe(st, c), cells \ {c})

\* The for-loop of check_knowledge from list index i on, carrying the
\* locals update, mines and safes (acc); the result is the state and the
\* locals when the loop ends.
RECURSIVE CheckKnowledgeLoop(_, _, _)
CheckKnowledgeLoop(st, i, acc) ==
    IF i > Len(st.kn) THEN [st |-> st, acc |-> acc]
    ELSE
        LET sentence == st.heap[st.kn[i]] IN
        IF Cardinality(sentence.cells) = 0
        THEN CheckKnowledgeLoop(ListRemove(st, sentence), i + 1, acc)
        ELSE
            LET km == known_mines(sentence)
                ks == known_safes(sentence)
                a1 == IF km # None
                      THEN [acc EXCEPT !.mines = @ \cup km[1], !.update = TRUE]
                      ELSE acc
                a2 == IF ks # None
                      THEN [a1 EXCEPT !.safes = @ \cup ks[1], !.update = TRUE]
                      ELSE a1
            IN  CheckKnowledgeLoop(st, i + 1, a2)

\* check_knowledge: one pass over the list, then the marking and the
\* recursive call when the pass found something.
RECURSIVE check_knowledge(_)
CheckKnowledgeRun(st) ==
    LET r == CheckKnowledgeLoop(st, 1,
                 [update |-> FALSE, mines |-> {}, safes |-> {}])
    IN  IF r.acc.update
        THEN check_knowledge(MarkSafes(MarkMines(r.st, r.acc.mines), r.acc.safes))
        ELSE r.st

\* check_knowledge, with the record of the call (every level of the
\* recursion is a call that starts and returns).
check_knowledge(st) ==
    LET r == CheckKnowledgeRun(st)
    IN  [r EXCEPT !.settles = @ \cup
            {[pre |-> View(st), post |-> View(r), mines |-> r.mines,
              safes |-> r.safes]}]

\* The candidate the subset loop derives from the stored sentence and the
\* list element info (lines 268-277): None when neither cell set contains
\* the other.
Difference(sentence, info) ==
    IF info.cells \subseteq sentence.cells
    THEN Some(Sentence(sentence.cells \ info.cells, sentence.count - info.count))
    ELSE IF sentence.cells \subseteq info.cells
    THEN Some(Sentence(info.cells \ sentence.cells, info.count - sentence.count))
    ELSE None

RECURSIVE check_and_add_sentence(_, _, _)

\* The for-loop `for info in self.knowledge` of check_and_add_sentence from
\* list index i on; sid refers to the sentence this frame has stored, d is
\* the frame's nesting depth.  The stored sentence and the list are read
\* afresh at every step, as the recursive calls change both.
RECURSIVE SubsetLoop(_, _, _, _)
SubsetLoop(st, sid, i, d) ==
    IF st.err # "ok" \/ i > Len(st.kn) THEN st
    ELSE
        LET info == st.heap[st.kn[i]]
            sentence == st.heap[sid]
        IN  IF Cardinality(info.cells) = 0
            THEN SubsetLoop(ListRemove(st, info), sid, i + 1, d)
            ELSE
                LET diff == Difference(sentence, info)
                    paired == [st EXCEPT !.pairs = @ \cup
                                {[stored |-> sid, info |-> st.kn[i],
                                  derived |-> diff[1]]}]
                IN  IF diff # None
                    THEN SubsetLoop(check_and_add_sentence(paired, diff[1], d + 1),
                                    sid, i + 1, d)
                    ELSE SubsetLoop(st, sid, i + 1, d)

\* The body of check_and_add_sentence after its opening check_knowledge().
AddSentenceBody(st, sentence, d) ==
    IF InKnowledge(st, sentence) THEN st
    ELSE IF Cardinality(sentence.cells) = 0 THEN st
    ELSE IF known_mines(sentence) # None
    THEN MarkMines(st, known_mines(sentence)[1])
    ELSE IF known_safes(sentence) # None
    THEN MarkSafes(st, known_safes(sentence)[1])
    ELSE
        LET sid == Len(st.heap) + 1
            stored == [st EXCEPT !.heap = Append(@, sentence),
                                 !.kn = Append(@, sid),
                                 !.appends = @ + 1]
        IN  IF stored.appends > MaxAppends
            THEN [stored EXCEPT !.err = "unfinished"]
            ELSE SubsetLoop(stored, sid, 1, d)

\* check_and_add_sentence at nesting depth d, with the record of the call
\* when it returns.  A call nested deeper than the interpreter allows raises
\* RecursionError, which no frame catches.
check_and_add_sentence(st, sentence, d) ==
    IF d > RecursionLimit THEN [st EXCEPT !.err = "RecursionError"]
    ELSE
        LET r == AddSentenceBody(check_knowledge(st), sentence, d)
        IN  IF r.err # "ok" THEN r
            ELSE [r EXCEPT !.adds = @ \cup
                    {[pre |-> View(st), sentence |-> sentence, depth |-> d,
                      mines |-> r.mines, safes |-> r.safes]}]

\* The cells add_knowledge looks at around cell (lines 293-301): the block
\* around it, bounded as the code bounds it, the row by self.width and the
\* column by self.height.
Neighbours(cell) ==
    { n \in Around(cell) :
        ~(n[1] < 0 \/ n[1] >= width \/ n[2] < 0 \/ n[2] >= height) }

\* The sentence add_knowledge builds (lines 291-311), given self.safes
\* already holding the cell: neighbours known safe are skipped, neighbours
\* known to be mines are skipped and counted off.
NewSentence(cell, count, knownSafes, knownMines) ==
    LET unknown == { n \in Neighbours(cell) : n \notin knownSafes }
    IN  Sentence({ n \in unknown : n \notin knownMines },
                 count - Cardinality({ n \in unknown : n \in knownMines }))

\* add_knowledge(cell, count) run on the current state: the state the call
\* ends in.
RunAddKnowledge(cell, count) ==
    LET st0 == [heap |-> knowledge,
                kn |-> [i \in 1 .. Len(knowledge) |-> i],
                mines |-> mines,
                safes |-> safes \cup {cell},
                appends |-> 0, err |-> "ok", settles |-> {}, adds |-> {},
     pairs |-> {}]
    IN  check_and_add_sentence(st0,
            NewSentence(cell, count, st0.safes, st0.mines), 1)

\* add_knowledge(cell, count)
add_knowledge(cell, count) ==
    LET r == RunAddKnowledge(cell, count)
    IN  /\ moves_made' = moves_made \cup {cell}
        /\ mines' = r.mines
        /\ safes' = r.safes
        /\ knowledge' = Values(r)
        /\ status' = r.err
        /\ calls' = calls + 1
        /\ last' = [op |-> "add_knowledge", cell |-> cell, count |-> count,
                    sentence |-> NewSentence(cell, count, safes \cup {cell}, mines),
                    settles |-> r.settles, adds |-> r.adds, pairs |-> r.pairs,
                    before |-> [moves_made |-> moves_made, mines |-> mines,
                                safes |-> safes, knowledge |-> knowledge]]
        /\ UNCHANGED <<height, width, board>>

\* make_safe_move without its `if cell in self.moves_made: continue`: the
\* first cell of self.safes is returned, played or not.
SafeMoveResultsAnySafe ==
    IF safes = {} THEN {None} ELSE { Some(cell) : cell \in safes }

\* The values make_safe_move can return: the first cell of self.safes, in
\* the set's iteration order, that is not in self.moves_made, or None when
\* the loop runs out.  The iteration order of a Python set is not fixed by
\* the program, so any such cell can be the first.
SafeMoveResults ==
    IF \A cell \in safes : cell \in moves_made
    THEN {None}
    ELSE { Some(cell) : cell \in { c \in safes : c \notin moves_made } }

\* make_safe_move() returning value: the method assigns nothing.
make_safe_move(value) ==
    /\ value \in SafeMoveResults
    /\ last' = [op |-> "make_safe_move", value |-> value,
                before |-> [moves_made |-> moves_made, mines |-> mines,
                            safes |-> safes, knowledge |-> knowledge]]
    /\ UNCHANGED <<height, width, board, moves_made, mines, safes,
                   knowledge, status, calls>>

\* The AI between calls, as the state a call starts from.
Current ==
    [heap |-> knowledge,
     kn |-> [i \in 1 .. Len(knowledge) |-> i],
     mines |-> mines,
     safes |-> safes,
     appends |-> 0, err |-> "ok", settles |-> {}, adds |-> {},
                pairs |-> {}]

\* What a call finds: the fields of the AI before it.
Before ==
    [moves_made |-> moves_made, mines |-> mines, safes |-> safes,
     knowledge |-> knowledge]

\* A call of MinesweeperAI.mark_mine(cell) by the caller.
call_mark_mine(cell) ==
    LET r == mark_mine(Current, cell)
    IN  /\ mines' = r.mines
        /\ safes' = r.safes
        /\ knowledge' = Values(r)
        /\ calls' = calls + 1
        /\ last' = [op |-> "mark_mine", cell |-> cell, before |-> Before]
        /\ UNCHANGED <<height, width, board, moves_made, status>>

\* A call of MinesweeperAI.mark_safe(cell) by the caller.
call_mark_safe(cell) ==
    LET r == mark_safe(Current, cell)
    IN  /\ mines' = r.mines
        /\ safes' = r.safes
        /\ knowledge' = Values(r)
        /\ calls' = calls + 1
        /\ last' = [op |-> "mark_safe", cell |-> cell, before |-> Before]
        /\ UNCHANGED <<height, width, board, moves_made, status>>

\* The cells make_random_move can return (lines 347-353): any board cell
\* randrange can draw that is in neither moves_made nor mines.
RandomMoveCells ==
    { cell \in BoardCells(height, width) :
        cell \notin moves_made /\ cell \notin mines }

\* make_random_move(): None when the two set sizes add up to the number of
\* board cells (line 344); otherwise the loop draws cells until one is in
\* neither set, which can be any such cell, and never ends when there is
\* none.  The method assigns nothing.
make_random_move ==
    /\ IF Cardinality(moves_made) + Cardinality(mines) = height * width
       THEN /\ last' = [op |-> "make_random_move", returned |-> TRUE,
                        value |-> None, before |-> Before]
            /\ status' = status
       ELSE IF RandomMoveCells = {}
       THEN /\ last' = [op |-> "make_random_move", returned |-> FALSE,
                        value |-> None, before |-> Before]
            /\ status' = "unfinished"
       ELSE \E cell \in RandomMoveCells :
            /\ last' = [op |-> "make_random_move", returned |-> TRUE,
                        value |-> Some(cell), before |-> Before]
            /\ status' = status
    /\ UNCHANGED <<height, width, board, moves_made, mines, safes,
                   knowledge, calls>>

\* ------------------------------------------------------------ the system

\* A game: a board of some height and width with some hidden layout, and
\* the AI as MinesweeperAI.__init__ leaves it.
Init ==
    /\ height \in 1 .. MaxCells
    /\ width \in 1 .. MaxCells
    /\ height * width <= MaxCells
    /\ board \in { b \in SUBSET BoardCells(height, width) : Cardinality(b) <= MaxMines }
    /\ moves_made = {}
    /\ mines = {}
    /\ safes = {}
    /\ knowledge = <<>>
    /\ status = "ok"
    /\ calls = 0
    /\ last = [op |-> "init"]

\* A truthful observation, while fewer than limit have been made: the
\* caller reveals a cell that is not a mine and reports
\* Minesweeper.nearby_mines for it.  A call that raised or did not return
\* ends the game.
Observe(limit) ==
    /\ status = "ok"
    /\ calls < limit
    /\ \E cell \in BoardCells(height, width) :
        /\ ~is_mine(cell)
        /\ add_knowledge(cell, nearby_mines(cell))

AddKnowledge == Observe(MaxMoves)

Next == AddKnowledge

\* Games of truthful observations.
Spec == Init /\ [][Next]_vars

AddKnowledgeThenAsk == Observe(MaxQueryCalls)

\* The caller asks for a safe move.
MakeSafeMove ==
    /\ status = "ok"
    /\ \E value \in {None} \cup { Some(cell) : cell \in safes } :
        make_safe_move(value)

NextQueries == AddKnowledgeThenAsk \/ MakeSafeMove

\* A board of at most MaxQueryCells cells.
InitQueries == Init /\ height * width <= MaxQueryCells

\* Shorter games of truthful observations, on smaller boards, in which the
\* caller asks the AI for moves at any point.
SpecQueries == InitQueries /\ [][NextQueries]_vars

\* The caller asks for a random move.
MakeRandomMove == status = "ok" /\ make_random_move

NextMoves == AddKnowledgeThenAsk \/ MakeRandomMove

\* Shorter games of truthful observations in which the caller asks the AI
\* for random moves at any point.
SpecMoves == Init /\ [][NextMoves]_vars

\* A small board, for the games in which the caller uses every method; the
\* hidden layout plays no part in them, as the caller reports any count.
InitCalls == Init /\ height * width <= MaxCallCells /\ board = {}

\* An add_knowledge call with any cell of the board and any count a board
\* can report, truthful or not.
AnyAddKnowledge ==
    /\ status = "ok"
    /\ calls < MaxCalls
    /\ \E cell \in BoardCells(height, width), count \in 0 .. 8 :
        /\ count <= Cardinality({ n \in Around(cell) : InBounds(n) })
        /\ add_knowledge(cell, count)

\* The caller marks a cell of the board as a mine itself.
MarkMine ==
    /\ status = "ok"
    /\ calls < MaxCalls
    /\ \E cell \in BoardCells(height, width) : call_mark_mine(cell)

\* The caller marks a cell of the board as safe itself.
MarkSafe ==
    /\ status = "ok"
    /\ calls < MaxCalls
    /\ \E cell \in BoardCells(height, width) : call_mark_safe(cell)

NextCalls ==
    AnyAddKnowledge \/ MarkMine \/ MarkSafe \/ MakeSafeMove \/ MakeRandomMove

\* Games in which the caller uses every method of the AI, in any order and
\* with any arguments.
SpecCalls == InitCalls /\ [][NextCalls]_vars

\* A smaller board with more mines hidden in it.
InitDense ==
    /\ height \in 1 .. MaxDenseCells
    /\ width \in 1 .. MaxDenseCells
    /\ height * width <= MaxDenseCells
    /\ board \in { b \in SUBSET BoardCells(height, width) :
                        Cardinality(b) <= MaxDenseMines }
    /\ moves_made = {}
    /\ mines = {}
    /\ safes = {}
    /\ knowledge = <<>>
    /\ status = "ok"
    /\ calls = 0
    /\ last = [op |-> "init"]

\* A truthful observation of a cell not revealed before.
AddKnowledgeOnce ==
    /\ status = "ok"
    /\ calls < MaxMoves
    /\ \E cell \in BoardCells(height, width) :
        /\ cell \notin moves_made
        /\ ~is_mine(cell)
        /\ add_knowledge(cell, nearby_mines(cell))

NextDense == AddKnowledgeOnce

\* Games of truthful observations on the boards with more mines, each cell
\* revealed at most once.
SpecDense == InitDense /\ [][NextDense]_vars

\* ------------------------------------------------------------ properties

\* The last call was an add_knowledge that returned.
Added == last.op = "add_knowledge" /\ status = "ok"

\* C1: on every board, square or not, after any sequence of truthful
\* add_knowledge calls every cell in mines is a mine of the layout and no
\* cell in safes is.
C1_GroundTruthSound ==
    /\ mines \subseteq board
    /\ safes \cap board = {}

\* C2: after any sequence of truthful add_knowledge calls, on a board of any
\* height and width, mines and safes are disjoint.
C2_MinesSafesDisjoint == mines \cap safes = {}

\* C3: between add_knowledge calls no cell of a sentence of the knowledge
\* list is in mines or in safes; in particular the cell just revealed is in
\* no sentence of the list.
C3_NoKnownCellInSentence ==
    /\ \A i \in 1 .. Len(knowledge) :
            knowledge[i].cells \cap (mines \cup safes) = {}
    /\ Added => \A i \in 1 .. Len(knowledge) : last.cell \notin knowledge[i].cells

\* C4: the knowledge list never holds two sentences with the same cells and
\* the same count.
C4_NoDuplicateSentences ==
    \A i, j \in 1 .. Len(knowledge) :
        SentenceEq(knowledge[i], knowledge[j]) => i = j

\* C5: whenever check_knowledge returns, no sentence left in the list has
\* count 0 or a count equal to the number of its cells.
C5_SettleLeavesNoTrivial ==
    Added =>
        \A e \in last.settles : \A i \in 1 .. Len(e.post) :
            /\ e.post[i].count # 0
            /\ e.post[i].count # Cardinality(e.post[i].cells)

\* C7: every sentence of the knowledge list has 0 <= count <= |cells|.
C7_CountWithinCells ==
    \A i \in 1 .. Len(knowledge) :
        /\ 0 <= knowledge[i].count
        /\ knowledge[i].count <= Cardinality(knowledge[i].cells)

\* C6: when check_and_add_sentence is called with a sentence over T with
\* count m while the list holds a sentence over S with count n, one cell
\* set a proper subset of the other and the count of the larger minus the
\* count of the smaller 0, every cell of the set difference is in safes
\* when the call returns.
C6_SubsetResolution ==
    Added =>
        \A e \in last.adds : \A i \in 1 .. Len(e.pre) :
            LET S == e.pre[i].cells
                n == e.pre[i].count
                T == e.sentence.cells
                m == e.sentence.count
            IN  /\ (S \subseteq T /\ S # T /\ m - n = 0) => (T \ S) \subseteq e.safes
                /\ (T \subseteq S /\ S # T /\ n - m = 0) => (S \ T) \subseteq e.safes

\* C8: on a square board, when add_knowledge(cell, 0) returns for a cell
\* with no adjacent mine, every in-bounds neighbour of the cell is in safes.
C8_ZeroCountNeighboursSafe ==
    (Added /\ height = width /\ last.count = 0) =>
        \A n \in Around(last.cell) : InBounds(n) => n \in safes

\* C9: when check_knowledge starts with sentences whose count equals the
\* size of their non-empty cell set, then when it returns the cells of each
\* such sentence are in mines and none of those sentences is in the list
\* any more; and when check_knowledge returns no sentence of the list has
\* an empty cell set.
C9_SettleAbsorbsAllMines ==
    Added =>
        \A e \in last.settles :
            /\ \A i \in 1 .. Len(e.pre) :
                (e.pre[i].cells # {} /\ e.pre[i].count = Cardinality(e.pre[i].cells))
                    => /\ e.pre[i].cells \subseteq e.mines
                       /\ \A j \in 1 .. Len(e.post) : e.post[j].id # e.pre[i].id
            /\ \A j \in 1 .. Len(e.post) : e.post[j].cells # {}

\* C10: make_safe_move returns a cell in safes and not in moves_made when
\* there is one, returns None exactly when safes is a subset of moves_made,
\* and leaves mines, safes, moves_made and the knowledge list as they were.
C10_SafeMove ==
    last.op = "make_safe_move" =>
        /\ (last.value = None) <=> (last.before.safes \subseteq last.before.moves_made)
        /\ last.value # None =>
                /\ last.value[1] \in last.before.safes
                /\ last.value[1] \notin last.before.moves_made
        /\ moves_made = last.before.moves_made
        /\ mines = last.before.mines
        /\ safes = last.before.safes
        /\ knowledge = last.before.knowledge

\* C10 happens: make_safe_move has returned a cell while other safe cells
\* had been played already and sentences were stored.
C10_SafeMoveReturned ==
    /\ last.op = "make_safe_move"
    /\ last.value # None
    /\ safes \cap moves_made # {}
    /\ knowledge # <<>>

\* C11: across add_knowledge, mark_mine, mark_safe, make_safe_move and
\* make_random_move calls, each of mines, safes and moves_made after a call
\* is a superset of the same set before the call.
C11_SetsOnlyGrow ==
    [][/\ mines \subseteq mines'
       /\ safes \subseteq safes'
       /\ moves_made \subseteq moves_made']_vars

\* C11 happens: after an add_knowledge call that filled moves_made and
\* safes, a mark_mine call has added a cell to mines.
C11_SetsHaveGrown ==
    /\ last.op = "mark_mine"
    /\ mines # last.before.mines
    /\ safes # {} /\ moves_made # {}

\* The mines, the safes and the sentences of a call state are the AI's.
SameAsNow(r) ==
    /\ r.mines = mines
    /\ r.safes = safes
    /\ Values(r) = knowledge

\* C12: calling mark_mine(cell) twice gives the same mines, safes and
\* sentences as calling it once, and likewise for mark_safe(cell): a second
\* call after the one just made changes nothing, and from any state two
\* calls for any cell end where one call ends.
C12_MarkingTwiceIsMarkingOnce ==
    /\ last.op = "mark_mine" => SameAsNow(mark_mine(Current, last.cell))
    /\ last.op = "mark_safe" => SameAsNow(mark_safe(Current, last.cell))
    /\ \A cell \in BoardCells(height, width) :
        /\ mark_mine(mark_mine(Current, cell), cell) = mark_mine(Current, cell)
        /\ mark_safe(mark_safe(Current, cell), cell) = mark_safe(Current, cell)

\* C12 happens: a mark_mine call has taken its cell out of a stored
\* sentence and lowered that sentence's count.
C12_MarkChangedSentence ==
    /\ last.op = "mark_mine"
    /\ knowledge # last.before.knowledge
    /\ last.cell \notin last.before.mines

\* A sentence whose count is between 0 and the number of its cells.
WellFormed(s) == 0 <= s.count /\ s.count <= Cardinality(s.cells)

\* C13: no Sentence with count < 0 or count > |cells| comes into existence:
\* the sentence add_knowledge builds from the observation, and every
\* sentence check_and_add_sentence is given in the call, has
\* 0 <= count <= |cells|.
C13_NoIllFormedSentenceBuilt ==
    Added =>
        /\ WellFormed(last.sentence)
        /\ \A e \in last.adds : WellFormed(e.sentence)

\* C14: on a board of any height and width, the sentence add_knowledge
\* builds has as cells exactly the neighbours (r, c) of the cell with
\* 0 <= r < height and 0 <= c < width that are in neither safes nor mines,
\* and as count the reported count minus the number of in-bounds neighbours
\* already in mines.
C14_SentenceOfInBoundsNeighbours ==
    last.op = "add_knowledge" =>
        LET inside == { n \in Around(last.cell) : InBounds(n) }
        IN  /\ last.sentence.cells =
                    { n \in inside : n \notin last.before.safes
                                     /\ n \notin last.before.mines }
            /\ last.sentence.count =
                    last.count - Cardinality(inside \cap last.before.mines)

\* C15: when add_knowledge returns, no sentence of the knowledge list is
\* empty, has count 0 or has a count equal to the number of its cells.
C15_NoTrivialSentenceAfterAdd ==
    Added =>
        \A i \in 1 .. Len(knowledge) :
            /\ knowledge[i].cells # {}
            /\ knowledge[i].count # 0
            /\ knowledge[i].count # Cardinality(knowledge[i].cells)

\* C16: every add_knowledge call terminates: no call is abandoned by the
\* interpreter for nesting check_and_add_sentence too deep, and no call
\* keeps appending sentences to the list it iterates over.
C16_EveryCallReturns == status = "ok"

\* C17: make_random_move terminates, returns None exactly when every board
\* cell is in moves_made or in mines, and otherwise returns a board cell
\* that is in neither.
C17_RandomMove ==
    last.op = "make_random_move" =>
        LET open == { cell \in BoardCells(height, width) :
                        /\ cell \notin last.before.moves_made
                        /\ cell \notin last.before.mines }
        IN  /\ last.returned
            /\ (last.value = None) <=> (open = {})
            /\ last.value # None => last.value[1] \in open

\* C18: in the subset loop that follows storing a sentence, no sentence is
\* derived from, and no recursive check_and_add_sentence call is made for,
\* the stored sentence paired with itself.
C18_NeverComparedWithItself ==
    Added => \A p \in last.pairs : p.info # p.stored

====
